---- MODULE Spec2Model ----
(***************************************************************************)
(* Escalation lifecycle engine of the AI receptionist backend:             *)
(*   - FirebaseService (app/services/firebase_service.py): create, answer, *)
(*     knowledge base writes;                                              *)
(*   - the help-request HTTP routes (app/api/routes/help_requests.py);     *)
(*   - TimeoutService (app/services/timeout_service.py): the sweep;        *)
(*   - ConnectionManager / NotificationService                             *)
(*     (app/services/notification_service.py): the broadcast fan-out.      *)
(*                                                                         *)
(* Scheduling: one asyncio event loop.  The Firebase calls (ref.get,       *)
(* ref.set, ref.delete) are synchronous, so a coroutine can only be        *)
(* suspended at `await connection.send_json(...)` inside broadcast and at  *)
(* asyncio.sleep.  Every action below is one run of a coroutine from the   *)
(* point where it is resumed to its next suspension point.                 *)
(*                                                                         *)
(* Time: the clock counts hours.  datetime.isoformat / fromisoformat are   *)
(* exact inverses on the naive UTC datetimes the code produces, and ISO    *)
(* strings of one format order like the instants, so a timestamp is kept   *)
(* as the integer instant.                                                 *)
(***************************************************************************)
EXTENDS Integers, Sequences, FiniteSets, TLC

\* ---------------------------------------------------------------- bounds
MaxIds == 2          \* escalation ids ever generated (uuid4, never reused)
MaxConns == 1        \* websocket objects ever accepted
MaxClock == 2        \* last instant the clock reaches
MaxKb == 1           \* knowledge-base entries ever written
MaxLoops == 2        \* calls of TimeoutService.start
MaxHubConns == 3     \* websocket objects ever accepted, in SpecHub
MaxHubEvents == 2    \* calls of broadcast, in SpecHub
MaxManual == 1       \* manual knowledge-base entries ever written, in SpecKb
MaxStatRecords == 4  \* escalation records in the stores of SpecStats
MaxSockets == 2      \* websocket objects ever accepted, in SpecSocket
MaxPayloads == 2     \* texts a websocket ever receives, in SpecSocket
MaxExport == 2       \* knowledge-base entries in the stores of SpecExport
MaxResolves == 2     \* successful Resolve calls, in SpecResolve

Ids == 1..MaxIds
ConnIds == 1..MaxConns
\* a route handler is suspended only in the broadcast that follows a
\* knowledge-base write, so no more than MaxKb handlers are ever in flight
HandlerSlots == 1..MaxKb
\* every message handed to broadcast comes from a knowledge-base write or from
\* the one timeout of an id
MaxEvents == MaxKb + MaxManual + 2 * MaxIds

\* ------------------------------------------------------- input alphabets
Questions == {"q1"}
Callers == {"555-0101"}
Sessions == {"room-42"}
Answers == {"a1"}
Supervisors == {"Sarah"}
TimeoutHoursChoices == {1, 2, 3}
CreateCallers == {"", "555-0101"}
CreateQuestions == {"", "q1"}

\* Python None, for text fields and for timestamps
None == "None"
NoTime == -1

\* ------------------------------------------------------------- constants
PENDING == "pending"
RESOLVED == "resolved"
TIMEOUT == "timeout"
LEARNED == "learned"
MANUAL == "manual"
DefaultTimeoutHours == 2     \* Settings.HELP_REQUEST_TIMEOUT_HOURS default
HardcodedTimeoutHours == 2   \* timedelta(hours=2) in create_help_request

VARIABLES
    clock,                       \* datetime.utcnow()
    HELP_REQUEST_TIMEOUT_HOURS,  \* settings.HELP_REQUEST_TIMEOUT_HOURS
    store,                       \* /help_requests: id -> record
    created,                     \* history: id -> record written by Create
    nextId,                      \* number of ids generated so far
    kb,                          \* /knowledge_base, in order of insertion
    active_connections,          \* ConnectionManager.active_connections
    nextConn,                    \* number of websocket objects accepted
    events,                      \* history: messages handed to broadcast
    recv,                        \* history: conn -> event index -> times received
    callbacks,                   \* history: simulated customer callbacks
    sweep,                       \* the TimeoutService loop task
    handlers,                    \* route handlers suspended in broadcast
    raced,                       \* history: ids resolved with success while a
                                 \* suspended sweep held their pending copy
    running,                     \* TimeoutService.running
    loops,                       \* the tasks made by asyncio.create_task in
                                 \* TimeoutService.start, in order of creation
    websockets                   \* the websocket_supervisor_endpoint coroutines: conn ->
                                 \* position, payloads received, texts sent

vars == <<clock, HELP_REQUEST_TIMEOUT_HOURS, store, created, nextId, kb,
          active_connections, nextConn, events, recv, callbacks, sweep,
          handlers, raced, running, loops, websockets>>

\* ---------------------------------------------------------- the endpoint
\* websocket_supervisor_endpoint has not been entered for the connection
Unopened == [pc |-> "none", received |-> <<>>, sent |-> <<>>]

\* no websocket was accepted yet
NoSockets == [c \in 1..MaxHubConns |-> Unopened]

\* ------------------------------------------------------------ the records
\* `caller_info or "Anonymous"`
OrAnonymous(caller_info) == IF caller_info = "" THEN "Anonymous" ELSE caller_info

\* help_request_data of create_help_request; timeout_at is now + 2 hours
HelpRequestData(request_id, question, caller_info, session_id, now) ==
    [id |-> request_id,
     question |-> question,
     caller_info |-> OrAnonymous(caller_info),
     status |-> PENDING,
     created_at |-> now,
     resolved_at |-> NoTime,
     timeout_at |-> now + HardcodedTimeoutHours,
     answer |-> None,
     answered_by |-> None,
     session_id |-> session_id,
     callback_info |-> [phone |-> caller_info, ask_time |-> now],
     attempt_count |-> 0]

\* HelpRequestResponse(**request_data): the pydantic model keeps ten fields
HelpRequestResponse(d) ==
    [id |-> d.id, question |-> d.question, caller_info |-> d.caller_info,
     status |-> d.status, created_at |-> d.created_at,
     resolved_at |-> d.resolved_at, timeout_at |-> d.timeout_at,
     answer |-> d.answer, answered_by |-> d.answered_by,
     session_id |-> d.session_id]

\* answer_request forgetting to store the supervisor's name
AnsweredNoName(request_data, answer, supervisor_name, now) ==
    [request_data EXCEPT !.status = RESOLVED,
                         !.answer = answer,
                         !.resolved_at = now]

\* answer_request stamping the deadline field instead of resolved_at
AnsweredWrongStamp(request_data, answer, supervisor_name, now) ==
    [request_data EXCEPT !.status = RESOLVED,
                         !.answer = answer,
                         !.answered_by = supervisor_name,
                         !.timeout_at = now]

\* the update of answer_request on the record it read
Answered(request_data, answer, supervisor_name, now) ==
    [request_data EXCEPT !.status = RESOLVED,
                         !.answer = answer,
                         !.answered_by = supervisor_name,
                         !.resolved_at = now]

\* a sweep that writes the scanned copy back without changing its status
TimedOutStillPending(request_data) == request_data

\* request_data["status"] = RequestStatus.TIMEOUT.value on the scanned copy
TimedOut(request_data) == [request_data EXCEPT !.status = TIMEOUT]

\* add_to_knowledge_base tagging the entry as create_kb_entry does
LearnedEntryManual(kb_id, question, answer, now) ==
    [id |-> kb_id, question |-> question, answer |-> answer,
     source |-> MANUAL, created_at |-> now, updated_at |-> now,
     use_count |-> 0]

\* kb_entry_data of add_to_knowledge_base
LearnedEntry(kb_id, question, answer, now) ==
    [id |-> kb_id, question |-> question, answer |-> answer,
     source |-> LEARNED, created_at |-> now, updated_at |-> now,
     use_count |-> 0]

\* ----------------------------------------------------------- the messages
\* What notify_new_request is handed by the create route: `result`, the
\* pydantic model object itself (the answer route hands result.model_dump(),
\* the sweep the scanned dict).
AsModel(v) == [kind |-> "model", v |-> v]

\* request_data.get(...) exists on a dict only; on a BaseModel it raises
\* AttributeError
HasGet(arg) == arg.kind = "dict"

NewRequestMessage(d, now) ==
    [type |-> "new_request",
     data |-> [request_id |-> d.id, question |-> d.question,
               caller_info |-> d.caller_info, created_at |-> d.created_at],
     timestamp |-> now]

\* a request_resolved message built before the record holds resolved_at
RequestResolvedMessageUnstamped(d, now) ==
    [type |-> "request_resolved",
     data |-> [request_id |-> d.id, answer |-> d.answer,
               answered_by |-> d.answered_by, resolved_at |-> NoTime],
     timestamp |-> now]

RequestResolvedMessage(d, now) ==
    [type |-> "request_resolved",
     data |-> [request_id |-> d.id, answer |-> d.answer,
               answered_by |-> d.answered_by, resolved_at |-> d.resolved_at],
     timestamp |-> now]

RequestTimeoutMessage(d, now) ==
    [type |-> "request_timeout",
     data |-> [request_id |-> d.id, question |-> d.question,
               created_at |-> d.created_at, caller_info |-> d.caller_info],
     timestamp |-> now]

\* what notify_customer_callback logs
CustomerCallback(d) ==
    [caller_info |-> d.caller_info, question |-> d.question,
     answer |-> d.answer, answered_by |-> d.answered_by]

\* ---------------------------------------------------------- the broadcast
NoBc == [msg |-> 0, conn |-> 0, next |-> 0, failed |-> <<>>]

\* broadcast entered with a non-empty registry: the coroutine is suspended in
\* send_json to the first connection; the list iterator stands at index 2
BroadcastStart(msg, conns) ==
    [msg |-> msg, conn |-> conns[1], next |-> 2, failed |-> <<>>]

InSeq(x, seq) == \E k \in 1..Len(seq) : seq[k] = x

\* a disconnect that leaves the list as it is
RemoveNone(seq, x) == seq

\* list.remove(x) when x is in the list (disconnect)
Remove(seq, x) == SelectSeq(seq, LAMBDA y : y # x)

RECURSIVE RemoveAll(_, _)
RemoveAll(seq, failed) ==
    IF failed = <<>> THEN seq
    ELSE RemoveAll(Remove(seq, Head(failed)), Tail(failed))

\* a broadcast whose except clause does not note the connection
FailedAfterUnnoted(bc, ok) == bc.failed

\* failed_connections after the awaited send returned (ok) or raised
FailedAfter(bc, ok) == IF ok THEN bc.failed ELSE Append(bc.failed, bc.conn)

\* the for loop of broadcast has another connection to send to
BroadcastMore(bc, conns) == bc.next <= Len(conns)

\* the iterator of enumerate(self.active_connections) yields the element at
\* its index in the list as it is now
BroadcastNext(bc, ok, conns) ==
    [msg |-> bc.msg, conn |-> conns[bc.next], next |-> bc.next + 1,
     failed |-> FailedAfter(bc, ok)]

\* the clean-up loop after the last send
BroadcastCleanup(bc, ok, conns) == RemoveAll(conns, FailedAfter(bc, ok))

\* recv after the awaited send to bc.conn returned
Received(bc, ok) ==
    IF ok THEN [recv EXCEPT ![bc.conn][bc.msg] = @ + 1] ELSE recv

\* -------------------------------------------------------------- the state
\* In Init the application is up: lifespan has called TimeoutService.start
\* once, and `sweep` is that one loop task (running is True, and no other
\* task is made).  The start and stop calls themselves are the subject of
\* SpecMonitor below, which keeps its loop tasks in `loops`.
Idle == [state |-> "idle"]
Sleeping == [pc |-> "sleep", timed_out_requests |-> <<>>, rest |-> <<>>, bc |-> NoBc]
NoBody == [none |-> TRUE]

Init ==
    /\ clock = 0
    /\ HELP_REQUEST_TIMEOUT_HOURS = DefaultTimeoutHours
    /\ store = [id \in {} |-> NoBody]
    /\ created = [id \in {} |-> NoBody]
    /\ nextId = 0
    /\ kb = <<>>
    /\ active_connections = <<>>
    /\ nextConn = 0
    /\ events = <<>>
    /\ recv = [c \in ConnIds |-> [m \in 1..MaxEvents |-> 0]]
    /\ callbacks = <<>>
    /\ sweep = Sleeping
    /\ handlers = [h \in HandlerSlots |-> Idle]
    /\ raced = {}
    /\ running = TRUE
    /\ loops = <<>>
    /\ websockets = NoSockets

\* time passes
Tick ==
    /\ clock < MaxClock
    /\ clock' = clock + 1
    /\ UNCHANGED <<running, loops, websockets>>
    /\ UNCHANGED <<HELP_REQUEST_TIMEOUT_HOURS, store, created, nextId, kb,
                   active_connections, nextConn, events, recv, callbacks,
                   sweep, handlers, raced>>

\* ------------------------------------------------------ the live channel
\* ConnectionManager.connect for a new websocket object
connect ==
    /\ nextConn < MaxConns
    /\ nextConn' = nextConn + 1
    /\ active_connections' = Append(active_connections, nextConn + 1)
    /\ UNCHANGED <<running, loops, websockets>>
    /\ UNCHANGED <<clock, HELP_REQUEST_TIMEOUT_HOURS, store, created, nextId,
                   kb, events, recv, callbacks, sweep, handlers, raced>>

\* ConnectionManager.disconnect, called by the endpoint when the receive loop
\* ends
disconnect(c) ==
    /\ InSeq(c, active_connections)
    /\ active_connections' = Remove(active_connections, c)
    /\ UNCHANGED <<running, loops, websockets>>
    /\ UNCHANGED <<clock, HELP_REQUEST_TIMEOUT_HOURS, store, created, nextId,
                   kb, nextConn, events, recv, callbacks, sweep, handlers,
                   raced>>

\* ------------------------------------------------------ a free handler slot
FreeSlots == {h \in HandlerSlots : handlers[h] = Idle}
FirstFree == CHOOSE h \in FreeSlots : \A g \in FreeSlots : h <= g

\* --------------------------------------------------------------- Create
\* How POST /api/help-requests/ ends.  fail: the store write raises; the
\* service re-raises and the route answers 500.
create_outcome(fail) == IF fail THEN "store_error" ELSE "created"

\* the status code of the route for an outcome
create_status(outcome) == IF outcome = "created" THEN 201 ELSE 500

\* the record create_help_request builds and writes at instant `now`
create_data(question, caller_info, session_id, now) ==
    HelpRequestData(nextId + 1, question, caller_info, session_id, now)

\* a create that writes the record although ref.set raised
create_store_always(data, fail) ==
    [id \in DOMAIN store \cup {data.id} |->
        IF id = data.id THEN data ELSE store[id]]

\* /help_requests after `ref.set(help_request_data)`: the record is there
\* unless the call raised
create_store(data, fail) ==
    IF fail THEN store
    ELSE [id \in DOMAIN store \cup {data.id} |->
             IF id = data.id THEN data ELSE store[id]]

\* POST /api/help-requests/: the route and FirebaseService.create_help_request.
\* The uuid is generated before the write, so a failed create uses one up.
create_help_request(question, caller_info, session_id, fail) ==
    LET data == create_data(question, caller_info, session_id, clock)
        request_id == data.id
        result == HelpRequestResponse(data)
        arg == AsModel(result)
    IN
    /\ nextId < MaxIds
    /\ nextId' = request_id
    /\ store' = create_store(data, fail)
    /\ IF create_outcome(fail) # "created"
       THEN \* the exception skips the notification; the route answers 500
            UNCHANGED <<created, events, handlers>>
       ELSE /\ created' = [id \in DOMAIN created \cup {request_id} |->
                            IF id = request_id THEN data ELSE created[id]]
            /\ IF ~HasGet(arg)
               THEN \* notify_new_request raised; the route prints a warning
                    UNCHANGED <<events, handlers>>
               ELSE /\ events' = Append(events, NewRequestMessage(arg.v, clock))
                    /\ IF active_connections = <<>>
                       THEN handlers' = handlers
                       ELSE /\ FreeSlots # {}
                            /\ handlers' = [handlers EXCEPT ![FirstFree] =
                                   [state |-> "send", kind |-> "create", result |-> result,
                                    bc |-> BroadcastStart(Len(events) + 1,
                                                          active_connections)]]
    /\ UNCHANGED <<running, loops, websockets>>
    /\ UNCHANGED <<clock, HELP_REQUEST_TIMEOUT_HOURS, kb, active_connections,
                   nextConn, recv, callbacks, sweep, raced>>

\* --------------------------------------------------------------- Resolve
\* the knowledge-base entries written by add_to_knowledge_base
LearnedEntries == SelectSeq(kb, LAMBDA e : e.source = LEARNED)

\* ids whose scanned copy the suspended sweep has still to write
SweepPendingIds == {sweep.rest[k].id : k \in 1..Len(sweep.rest)}

\* How FirebaseService.answer_request ends on the store as it is.
\* fail: "get", "set" or "kb" is the store call that raises, "none" otherwise.
\* The only test on the record read is `if not request_data`.
answer_outcome(request_id, fail) ==
    IF fail = "get" THEN "store_error"
    ELSE IF request_id \notin DOMAIN store THEN "not_found"
    ELSE IF fail = "set" THEN "store_error"
    ELSE IF fail = "kb" THEN "kb_error"
    ELSE "resolved"

\* the status code of PUT /{id}/answer: every exception of the service,
\* the ValueError for an unknown id included, is caught by the route's
\* `except Exception` and answered as a 500
answer_status(outcome) == IF outcome = "resolved" THEN 200 ELSE 500

\* the record answer_request writes back and returns
answer_data(request_id, answer, supervisor_name, now) ==
    Answered(store[request_id], answer, supervisor_name, now)

\* add_to_knowledge_base is called at most n times: a Resolve that gets as
\* far as the learned entry is taken only while fewer than n exist
KbRoom(n, request_id, fail) ==
    answer_outcome(request_id, fail) = "resolved" => Len(LearnedEntries) < n

\* PUT /api/help-requests/{id}/answer: the route and
\* FirebaseService.answer_request with add_to_knowledge_base
answer_request(request_id, answer, supervisor_name, fail) ==
    LET outcome == answer_outcome(request_id, fail)
        request_data == answer_data(request_id, answer, supervisor_name, clock)
        result == HelpRequestResponse(request_data)
        entry == LearnedEntry(Len(kb) + 1, request_data.question, answer, clock)
    IN
    /\ IF outcome \in {"store_error", "not_found"}
       THEN UNCHANGED <<store, kb, events, callbacks, handlers, raced>>
       ELSE /\ store' = [store EXCEPT ![request_id] = request_data]
            /\ IF outcome = "kb_error"
               THEN UNCHANGED <<kb, events, callbacks, handlers, raced>>
               ELSE /\ raced' = IF /\ sweep.pc = "send"
                                   /\ request_id \in SweepPendingIds
                                   /\ store[request_id].status = PENDING
                                THEN raced \cup {request_id} ELSE raced
                    /\ kb' = Append(kb, entry)
                    /\ events' = Append(events, RequestResolvedMessage(result, clock))
                    /\ IF active_connections = <<>>
                       THEN /\ callbacks' = Append(callbacks, CustomerCallback(result))
                            /\ handlers' = handlers
                       ELSE /\ FreeSlots # {}
                            /\ handlers' = [handlers EXCEPT ![FirstFree] =
                                   [state |-> "send", kind |-> "answer", result |-> result,
                                    bc |-> BroadcastStart(Len(events) + 1,
                                                          active_connections)]]
                            /\ callbacks' = callbacks
    /\ UNCHANGED <<running, loops, websockets>>
    /\ UNCHANGED <<clock, HELP_REQUEST_TIMEOUT_HOURS, created, nextId,
                   active_connections, nextConn, recv, sweep>>

\* a route in which a send that raised ends the request before the callback
CallbacksAfterSurfaced(hd, ok) ==
    IF hd.kind = "answer" /\ ok
    THEN Append(callbacks, CustomerCallback(hd.result))
    ELSE callbacks

\* the customer callbacks once the handler's broadcast has returned: broadcast
\* has caught the exception of a send that raised, so the answer route goes
\* on to notify_customer_callback whether the last send returned or not
CallbacksAfter(hd, ok) ==
    IF hd.kind = "answer"
    THEN Append(callbacks, CustomerCallback(hd.result))
    ELSE callbacks

\* a suspended handler is resumed: its send_json returned (ok) or raised.
\* After the last send the answer route logs the customer callback and
\* returns the result it holds.
handler_resume(h, ok) ==
    LET hd == handlers[h] IN
    /\ hd # Idle
    /\ recv' = Received(hd.bc, ok)
    /\ IF BroadcastMore(hd.bc, active_connections)
       THEN /\ handlers' = [handlers EXCEPT ![h].bc =
                               BroadcastNext(hd.bc, ok, active_connections)]
            /\ UNCHANGED <<active_connections, callbacks>>
       ELSE /\ active_connections' = BroadcastCleanup(hd.bc, ok, active_connections)
            /\ handlers' = [handlers EXCEPT ![h] = Idle]
            /\ callbacks' = CallbacksAfter(hd, ok)
    /\ UNCHANGED <<running, loops, websockets>>
    /\ UNCHANGED <<clock, HELP_REQUEST_TIMEOUT_HOURS, store, created, nextId, kb,
                   nextConn, events, sweep, raced>>

\* DELETE /api/help-requests/{id}: ref.delete(); fail: the store call raises
delete_help_request(request_id, fail) ==
    /\ store' = IF fail THEN store
                ELSE [id \in DOMAIN store \ {request_id} |-> store[id]]
    /\ UNCHANGED <<running, loops, websockets>>
    /\ UNCHANGED <<clock, HELP_REQUEST_TIMEOUT_HOURS, created, nextId, kb,
                   active_connections, nextConn, events, recv, callbacks, sweep,
                   handlers, raced>>

\* ---------------------------------------------------------------- the sweep
\* a scan without the comparison of timeout_at with now
DueOrNot(data, now) ==
    {id \in DOMAIN data : data[id].status = PENDING}

\* the records of the scan that are pending and due at `now`
Due(data, now) ==
    {id \in DOMAIN data : data[id].status = PENDING /\ data[id].timeout_at <= now}

\* data.items() iterates in key order; the keys are uuid4 strings, so the
\* order of the due records is any order
Orders(S) ==
    {f \in [1..Cardinality(S) -> S] : \A i, j \in 1..Cardinality(S) : f[i] = f[j] => i = j}

\* timed_out_requests for one iteration order: the scanned copies
TimedOutRequests(data, order) == [k \in 1..Len(order) |-> data[order[k]]]

\* How many records of the list L one run of the second for loop handles before
\* the coroutine is suspended or the loop ends.  With a connection registered
\* the run is suspended in the first record's broadcast; with none, broadcast
\* returns at once and the loop goes on.  failAt = k: the k-th store write
\* raises and the outer `except Exception` ends the sweep (0: no write raises).
Handled(L, conns, failAt) ==
    IF L = <<>> THEN 0
    ELSE IF failAt = 1 THEN 0
    ELSE IF conns # <<>> THEN 1
    ELSE IF failAt \in 2..Len(L) THEN failAt - 1
    ELSE Len(L)

\* ref.child(request_id).set(request_data) for the first n records of L: the
\* scanned copy, with status timeout, replaces whatever the store holds
Written(L, st, n) ==
    [id \in DOMAIN st \cup {L[k].id : k \in 1..n} |->
        IF \E k \in 1..n : L[k].id = id
        THEN TimedOut(L[CHOOSE k \in 1..n : L[k].id = id])
        ELSE st[id]]

\* a loop that notifies before it writes: the record after the first n is
\* announced as well
EmittedBeforeWrite(L, ev, n, now) ==
    ev \o [k \in 1..(IF n < Len(L) THEN n + 1 ELSE n) |->
              RequestTimeoutMessage(TimedOut(L[k]), now)]

\* notify_request_timeout for the first n records of L
Emitted(L, ev, n, now) ==
    ev \o [k \in 1..n |-> RequestTimeoutMessage(TimedOut(L[k]), now)]

\* the sweep task after a run of the second for loop over L, the part of the
\* list timed_out_requests (all) that was still to handle
SweepAfter(all, L, ev, conns, failAt) ==
    IF conns # <<>> /\ Handled(L, conns, failAt) = 1
    THEN [pc |-> "send", timed_out_requests |-> all, rest |-> Tail(L),
          bc |-> BroadcastStart(Len(ev) + 1, conns)]
    ELSE Sleeping

\* TimeoutService._process_timeouts from its start to its first suspension.
\* failGet: the scan read raises (caught, the sweep ends).
process_timeouts(order, failGet, failAt) ==
    LET now == clock
        L == TimedOutRequests(store, order)
        n == Handled(L, active_connections, failAt)
    IN
    /\ sweep.pc = "sleep"
    /\ IF failGet
       THEN /\ order = <<>>
            /\ failAt = 0
            /\ UNCHANGED <<store, events, sweep>>
       ELSE /\ order \in Orders(Due(store, now))
            /\ failAt \in 0..Len(L)
            /\ store' = Written(L, store, n)
            /\ events' = Emitted(L, events, n, clock)
            /\ sweep' = SweepAfter(L, L, events, active_connections, failAt)
    /\ UNCHANGED <<running, loops, websockets>>
    /\ UNCHANGED <<clock, HELP_REQUEST_TIMEOUT_HOURS, created, nextId, kb,
                   active_connections, nextConn, recv, callbacks, handlers,
                   raced>>

\* the sweep is resumed: the send_json it awaited returned (ok) or raised
sweep_resume(ok, failAt) ==
    LET conns == BroadcastCleanup(sweep.bc, ok, active_connections)
        L == sweep.rest
        n == Handled(L, conns, failAt)
    IN
    /\ sweep.pc = "send"
    /\ recv' = Received(sweep.bc, ok)
    /\ IF BroadcastMore(sweep.bc, active_connections)
       THEN /\ failAt = 0
            /\ sweep' = [sweep EXCEPT !.bc = BroadcastNext(sweep.bc, ok, active_connections)]
            /\ UNCHANGED <<store, events, active_connections>>
       ELSE /\ failAt \in 0..Len(L)
            /\ IF conns # <<>> THEN failAt <= 1 ELSE TRUE
            /\ active_connections' = conns
            /\ store' = Written(L, store, n)
            /\ events' = Emitted(L, events, n, clock)
            /\ sweep' = SweepAfter(sweep.timed_out_requests, L, events, conns, failAt)
    /\ UNCHANGED <<running, loops, websockets>>
    /\ UNCHANGED <<clock, HELP_REQUEST_TIMEOUT_HOURS, created, nextId, kb,
                   nextConn, callbacks, handlers, raced>>

\* ------------------------------------------------------ the specification
Next ==
    \/ Tick
    \/ connect
    \/ \E c \in ConnIds : disconnect(c)
    \/ \E q \in Questions, c \in Callers, s \in Sessions, fail \in BOOLEAN :
          create_help_request(q, c, s, fail)
    \/ \E id \in Ids, a \in Answers, s \in Supervisors,
          fail \in {"none", "get", "set", "kb"} :
              KbRoom(MaxKb, id, fail) /\ answer_request(id, a, s, fail)
    \/ \E h \in HandlerSlots, ok \in BOOLEAN : handler_resume(h, ok)
    \/ \E id \in Ids, fail \in BOOLEAN : delete_help_request(id, fail)
    \/ \E failAt \in 0..MaxIds :
          \/ process_timeouts(<<>>, TRUE, failAt)
          \/ \E order \in Orders(Due(store, clock)) :
                process_timeouts(order, FALSE, failAt)
    \/ \E ok \in BOOLEAN, failAt \in 0..MaxIds : sweep_resume(ok, failAt)

Spec == Init /\ [][Next]_vars

\* Create alone, for every configured timeout duration, every caller text and
\* the empty question
InitConfig ==
    /\ clock = 0
    /\ HELP_REQUEST_TIMEOUT_HOURS \in TimeoutHoursChoices
    /\ store = [id \in {} |-> NoBody]
    /\ created = [id \in {} |-> NoBody]
    /\ nextId = 0
    /\ kb = <<>>
    /\ active_connections = <<>>
    /\ nextConn = 0
    /\ events = <<>>
    /\ recv = [c \in ConnIds |-> [m \in 1..MaxEvents |-> 0]]
    /\ callbacks = <<>>
    /\ sweep = Sleeping
    /\ handlers = [h \in HandlerSlots |-> Idle]
    /\ raced = {}
    /\ running = TRUE
    /\ loops = <<>>
    /\ websockets = NoSockets

NextCreate ==
    \/ Tick
    \/ \E q \in CreateQuestions, c \in CreateCallers, s \in Sessions, fail \in BOOLEAN :
          create_help_request(q, c, s, fail)

SpecCreate == InitConfig /\ [][NextCreate]_vars

\* ------------------------------------------------------ the knowledge base
\* query parameters of POST /api/knowledge-base/
KbQuestions == {"", "q1"}
KbAnswers == {"", "a1"}

\* the handlers of POST /api/knowledge-base/ suspended in broadcast
KbSlots == (MaxKb + 1)..(MaxKb + MaxManual)

\* the knowledge-base entries written by create_kb_entry
ManualEntries == SelectSeq(kb, LAMBDA e : e.source = MANUAL)

\* create_kb_entry tagging the entry as add_to_knowledge_base does
ManualEntryLearned(kb_id, question, answer, now) ==
    [id |-> kb_id, question |-> question, answer |-> answer,
     source |-> LEARNED, created_at |-> now, updated_at |-> now,
     use_count |-> 0]

\* kb_entry_data of FirebaseService.create_kb_entry
ManualEntry(kb_id, question, answer, now) ==
    [id |-> kb_id, question |-> question, answer |-> answer,
     source |-> MANUAL, created_at |-> now, updated_at |-> now,
     use_count |-> 0]

\* the message of notify_kb_updated
KbUpdatedMessage(question, answer, now) ==
    [type |-> "knowledge_base_updated",
     data |-> [question |-> question, answer |-> answer],
     timestamp |-> now]

\* How POST /api/knowledge-base/ ends.  fail: the store write raises.
create_kb_outcome(question, answer, fail) ==
    IF question = "" \/ answer = "" THEN "invalid"
    ELSE IF fail THEN "store_error"
    ELSE "created"

\* the status code of the route: the HTTPException(400) is raised inside the
\* try and caught by its `except Exception`, which answers 500
create_kb_status(outcome) == IF outcome = "created" THEN 201 ELSE 500

\* POST /api/knowledge-base/: the route, FirebaseService.create_kb_entry and
\* notify_kb_updated up to the first suspension of its broadcast
create_kb_entry(question, answer, fail) ==
    LET entry == ManualEntry(Len(kb) + 1, question, answer, clock)
        h == MaxKb + Len(ManualEntries) + 1
    IN
    /\ Len(ManualEntries) < MaxManual
    /\ IF create_kb_outcome(question, answer, fail) # "created"
       THEN UNCHANGED <<kb, events, handlers>>
       ELSE /\ kb' = Append(kb, entry)
            /\ events' = Append(events, KbUpdatedMessage(question, answer, clock))
            /\ IF active_connections = <<>>
               THEN handlers' = handlers
               ELSE handlers' = [handlers EXCEPT ![h] =
                        [state |-> "send", kind |-> "kb", result |-> entry,
                         bc |-> BroadcastStart(Len(events) + 1, active_connections)]]
    /\ UNCHANGED <<websockets, clock, HELP_REQUEST_TIMEOUT_HOURS, store, created, nextId,
                   active_connections, nextConn, recv, callbacks, sweep, raced,
                   running, loops>>

\* the application as in Init, with room for the handlers of the
\* knowledge-base route
InitKb ==
    /\ clock = 0
    /\ HELP_REQUEST_TIMEOUT_HOURS = DefaultTimeoutHours
    /\ store = [id \in {} |-> NoBody]
    /\ created = [id \in {} |-> NoBody]
    /\ nextId = 0
    /\ kb = <<>>
    /\ active_connections = <<>>
    /\ nextConn = 0
    /\ events = <<>>
    /\ recv = [c \in ConnIds |-> [m \in 1..MaxEvents |-> 0]]
    /\ callbacks = <<>>
    /\ sweep = Sleeping
    /\ handlers = [h \in HandlerSlots \cup KbSlots |-> Idle]
    /\ raced = {}
    /\ running = TRUE
    /\ loops = <<>>
    /\ websockets = NoSockets

NextKb ==
    \/ Tick
    \/ connect
    \/ \E q \in Questions, c \in Callers, s \in Sessions :
          create_help_request(q, c, s, FALSE)
    \/ \E id \in Ids, a \in Answers, s \in Supervisors,
          fail \in {"none", "get", "set", "kb"} :
              KbRoom(MaxKb, id, fail) /\ answer_request(id, a, s, fail)
    \/ \E q \in KbQuestions, a \in KbAnswers, fail \in BOOLEAN :
          create_kb_entry(q, a, fail)
    \/ \E h \in HandlerSlots \cup KbSlots, ok \in BOOLEAN : handler_resume(h, ok)
    \/ \E failAt \in 0..MaxIds :
          \/ process_timeouts(<<>>, TRUE, failAt)
          \/ \E order \in Orders(Due(store, clock)) :
                process_timeouts(order, FALSE, failAt)
    \/ \E ok \in BOOLEAN, failAt \in 0..MaxIds : sweep_resume(ok, failAt)

SpecKb == InitKb /\ [][NextKb]_vars

\* ------------------------------------------------------------ the queries
\* The keys create_initial_data writes under /help_requests and
\* /knowledge_base next to the records: "initialized" (True) and
\* "created_at" (a string).  The record keys are the positive numbers.
INITIALIZED == 0
CREATED_AT == -1
MarkerKeys == {INITIALIZED, CREATED_AT}

\* what ref.get() returns for /help_requests: the records and the markers
Data(st) ==
    [key \in DOMAIN st \cup MarkerKeys |-> IF key \in MarkerKeys THEN NoBody ELSE st[key]]

\* isinstance(r, dict): of the values under /help_requests only the records
\* are dicts
IsDict(r) == r # NoBody

\* sum(1 for r in data.values() if isinstance(r, dict) and
\*     r.get("status") == status)
CountStatus(data, status) ==
    Cardinality({key \in DOMAIN data : IsDict(data[key]) /\ data[key].status = status})

\* statistics whose total is the number of keys
get_stats_len(data) ==
    [pending |-> CountStatus(data, PENDING),
     resolved |-> CountStatus(data, RESOLVED),
     timeout |-> CountStatus(data, TIMEOUT),
     total |-> Cardinality(DOMAIN data)]

\* FirebaseService.get_stats on the data it read
get_stats(data) ==
    [pending |-> CountStatus(data, PENDING),
     resolved |-> CountStatus(data, RESOLVED),
     timeout |-> CountStatus(data, TIMEOUT),
     total |-> CountStatus(data, PENDING) + CountStatus(data, RESOLVED)
               + CountStatus(data, TIMEOUT)]

\* what get_stats returns from its except branch
ZeroStats == [pending |-> 0, resolved |-> 0, timeout |-> 0, total |-> 0]

\* GET /api/help-requests/stats/summary.  fail: the store read raises; the
\* service catches it and returns the zero statistics, which the route
\* answers as any other
stats_summary(data, fail) ==
    [status |-> 200, body |-> IF fail THEN ZeroStats ELSE get_stats(data)]

\* GET /api/help-requests/: the responses of all records (kept as a set: the
\* order, newest first, is read by no property).  fail: the store read
\* raises; the service catches it and returns the empty list
get_help_requests(data, fail) ==
    [status |-> 200,
     body |-> IF fail THEN {}
              ELSE {HelpRequestResponse(data[key]) :
                        key \in {k \in DOMAIN data \ {INITIALIZED} : IsDict(data[k])}}]

\* GET /api/help-requests/{request_id}.  fail: the store read raises; the
\* service catches it and returns None, which the route answers as 404
get_help_request(st, request_id, fail) ==
    IF fail \/ request_id \notin DOMAIN st
    THEN [status |-> 404, body |-> None]
    ELSE [status |-> 200, body |-> HelpRequestResponse(st[request_id])]

\* GET /api/knowledge-base/: all entries (as a set).  fail: the store read
\* raises; get_all_kb_entries catches it and returns the empty list
get_knowledge_base(entries, fail) ==
    [status |-> 200,
     body |-> IF fail THEN {} ELSE {entries[k] : k \in 1..Len(entries)}]

\* GET /api/knowledge-base/{kb_id}: the entry with that id among those
\* get_all_kb_entries returns (none when the store read raises).  The
\* HTTPException(404) is raised inside the try and caught by its
\* `except Exception`, which answers 500
get_kb_entry(entries, kb_id, fail) ==
    LET found == IF fail THEN {}
                 ELSE {k \in 1..Len(entries) : entries[k].id = kb_id}
    IN IF found = {} THEN [status |-> 500, body |-> None]
       ELSE [status |-> 200, body |-> entries[CHOOSE k \in found : TRUE]]

\* A store of up to MaxStatRecords escalations, all created at instant 0 and
\* now, at instant MaxClock, pending, resolved or timed out in any mix.  The
\* resolved ones were answered by requests whose knowledge-base write raised,
\* the timed-out ones by sweeps that ran with no supervisor connected.
StatStatuses == {PENDING, RESOLVED, TIMEOUT}

StatRecord(id, status) ==
    LET d == HelpRequestData(id, "q1", "555-0101", "room-42", 0) IN
    IF status = RESOLVED THEN Answered(d, "a1", "Sarah", MaxClock)
    ELSE IF status = TIMEOUT THEN TimedOut(d)
    ELSE d

RECURSIVE StatEvents(_, _)
StatEvents(st, n) ==
    IF n = 0 THEN <<>>
    ELSE IF st[n].status = TIMEOUT
         THEN Append(StatEvents(st, n - 1), RequestTimeoutMessage(st[n], MaxClock))
         ELSE StatEvents(st, n - 1)

InitStats ==
    \E n \in 0..MaxStatRecords : \E statuses \in [1..n -> StatStatuses] :
        /\ clock = MaxClock
        /\ HELP_REQUEST_TIMEOUT_HOURS = DefaultTimeoutHours
        /\ store = [id \in 1..n |-> StatRecord(id, statuses[id])]
        /\ created = [id \in 1..n |-> StatRecord(id, PENDING)]
        /\ nextId = n
        /\ kb = <<>>
        /\ active_connections = <<>>
        /\ nextConn = 0
        /\ events = StatEvents(store, n)
        /\ recv = [c \in ConnIds |-> [m \in 1..MaxStatRecords + 1 |-> 0]]
        /\ callbacks = <<>>
        /\ sweep = Sleeping
        /\ handlers = [h \in HandlerSlots |-> Idle]
        /\ raced = {}
        /\ running = TRUE
        /\ loops = <<>>
        /\ websockets = NoSockets

NextStats ==
    \/ \E id \in 1..MaxStatRecords, a \in Answers, s \in Supervisors,
          fail \in {"none", "get", "set", "kb"} :
              KbRoom(MaxKb, id, fail) /\ answer_request(id, a, s, fail)
    \/ \E id \in 1..MaxStatRecords, fail \in BOOLEAN : delete_help_request(id, fail)
    \/ \E order \in Orders(Due(store, clock)) : process_timeouts(order, FALSE, 0)

SpecStats == InitStats /\ [][NextStats]_vars

\* ------------------------------------------------------------ the monitor
\* A task made by TimeoutService.start.  pc: "ready" (made by create_task, not
\* yet run), "send" (inside _process_timeouts, suspended in a broadcast),
\* "sleep" (in asyncio.sleep(300)), "done" (the while loop ended).
\* History: sweeps is the number of sweeps the task has started, modulo 2;
\* failed tells that its last sweep was ended by a store error.
Ready ==
    [pc |-> "ready", timed_out_requests |-> <<>>, rest |-> <<>>, bc |-> NoBc,
     sweeps |-> 0, failed |-> FALSE]

\* a loop without the try/except around the store calls: the error ends it
LoopTaskUncaught(sw, sweeps, failed) ==
    [pc |-> IF failed THEN "done" ELSE sw.pc,
     timed_out_requests |-> sw.timed_out_requests,
     rest |-> sw.rest, bc |-> sw.bc, sweeps |-> sweeps, failed |-> failed]

\* the loop task whose sweep stands as sw: `except Exception` inside
\* _process_timeouts ends a sweep that hit a store error, and the loop goes
\* on to asyncio.sleep(300) as after any other sweep
LoopTask(sw, sweeps, failed) ==
    [pc |-> sw.pc,
     timed_out_requests |-> sw.timed_out_requests,
     rest |-> sw.rest, bc |-> sw.bc, sweeps |-> sweeps, failed |-> failed]

\* the two delays of _check_timeouts_loop, in seconds
NormalWait == 300
RetryWait == 60

\* Whether _process_timeouts raises into the loop when its sweep met a store
\* error (failed): its own `except Exception` catches the error and the
\* function returns normally
process_raises(failed) == FALSE

\* the delay of the asyncio.sleep the loop reaches after a sweep: 60 in the
\* loop's except branch, 300 after a _process_timeouts that returned
loop_sleep(failed) == IF process_raises(failed) THEN RetryWait ELSE NormalWait

\* the t-th task made by start, if start has been called t times
LoopAt(t) == IF t \in 1..Len(loops) THEN loops[t] ELSE [Ready EXCEPT !.pc = "none"]

\* the loop tasks that have not returned
Alive == {t \in 1..Len(loops) : loops[t].pc # "done"}

\* TimeoutService.start: sets the flag and makes a task, whatever the flag
\* was and whatever tasks exist; the task object is not kept
start ==
    /\ Len(loops) < MaxLoops
    /\ running' = TRUE
    /\ loops' = Append(loops, Ready)
    /\ UNCHANGED <<websockets, clock, HELP_REQUEST_TIMEOUT_HOURS, store, created, nextId,
                   kb, active_connections, nextConn, events, recv, callbacks,
                   sweep, handlers, raced>>

\* TimeoutService.stop: clears the flag and returns
stop ==
    /\ running' = FALSE
    /\ UNCHANGED <<websockets, clock, HELP_REQUEST_TIMEOUT_HOURS, store, created, nextId,
                   kb, active_connections, nextConn, events, recv, callbacks,
                   sweep, handlers, raced, loops>>

\* _check_timeouts_loop, run for the first time or resumed from its sleep,
\* finds `self.running` False and returns
loop_exit(t) ==
    /\ t \in 1..Len(loops)
    /\ loops[t].pc \in {"ready", "sleep"}
    /\ ~running
    /\ loops' = [loops EXCEPT ![t].pc = "done"]
    /\ UNCHANGED <<websockets, clock, HELP_REQUEST_TIMEOUT_HOURS, store, created, nextId,
                   kb, active_connections, nextConn, events, recv, callbacks,
                   sweep, handlers, raced, running>>

\* _check_timeouts_loop, run for the first time or resumed from its sleep,
\* finds `self.running` True and runs _process_timeouts up to its first
\* suspension.  failGet: the scan read raises; failAt = k: the k-th write does.
loop_sweep(t, order, failGet, failAt) ==
    LET task == loops[t]
        L == TimedOutRequests(store, order)
        n == Handled(L, active_connections, failAt)
    IN
    /\ t \in 1..Len(loops)
    /\ task.pc \in {"ready", "sleep"}
    /\ running
    /\ IF failGet
       THEN /\ order = <<>>
            /\ failAt = 0
            /\ loops' = [loops EXCEPT ![t] =
                            LoopTask(Sleeping, 1 - task.sweeps, TRUE)]
            /\ UNCHANGED <<store, events>>
       ELSE /\ order \in Orders(Due(store, clock))
            /\ failAt \in 0..Len(L)
            /\ active_connections # <<>> => failAt <= 1
            /\ store' = Written(L, store, n)
            /\ events' = Emitted(L, events, n, clock)
            /\ loops' = [loops EXCEPT ![t] =
                            LoopTask(SweepAfter(L, L, events, active_connections, failAt),
                                     1 - task.sweeps, failAt # 0)]
    /\ UNCHANGED <<websockets, clock, HELP_REQUEST_TIMEOUT_HOURS, created, nextId, kb,
                   active_connections, nextConn, recv, callbacks, sweep,
                   handlers, raced, running>>

\* a loop task suspended in a broadcast is resumed: its send_json returned
\* (ok) or raised.  `self.running` is not read before the sweep has ended.
loop_resume(t, ok, failAt) ==
    LET task == loops[t]
        conns == BroadcastCleanup(task.bc, ok, active_connections)
        L == task.rest
        n == Handled(L, conns, failAt)
    IN
    /\ t \in 1..Len(loops)
    /\ task.pc = "send"
    /\ recv' = Received(task.bc, ok)
    /\ IF BroadcastMore(task.bc, active_connections)
       THEN /\ failAt = 0
            /\ loops' = [loops EXCEPT ![t].bc =
                            BroadcastNext(task.bc, ok, active_connections)]
            /\ UNCHANGED <<store, events, active_connections>>
       ELSE /\ failAt \in 0..Len(L)
            /\ conns # <<>> => failAt <= 1
            /\ active_connections' = conns
            /\ store' = Written(L, store, n)
            /\ events' = Emitted(L, events, n, clock)
            /\ loops' = [loops EXCEPT ![t] =
                            LoopTask(SweepAfter(task.timed_out_requests, L, events,
                                                conns, failAt),
                                     task.sweeps, failAt # 0)]
    /\ UNCHANGED <<websockets, clock, HELP_REQUEST_TIMEOUT_HOURS, created, nextId, kb,
                   nextConn, callbacks, sweep, handlers, raced, running>>

\* a TimeoutService just constructed (running False, no task), on an empty
\* store
InitMonitor ==
    /\ clock = 0
    /\ HELP_REQUEST_TIMEOUT_HOURS = DefaultTimeoutHours
    /\ store = [id \in {} |-> NoBody]
    /\ created = [id \in {} |-> NoBody]
    /\ nextId = 0
    /\ kb = <<>>
    /\ active_connections = <<>>
    /\ nextConn = 0
    /\ events = <<>>
    /\ recv = [c \in ConnIds |-> [m \in 1..MaxEvents |-> 0]]
    /\ callbacks = <<>>
    /\ sweep = Sleeping
    /\ handlers = [h \in HandlerSlots |-> Idle]
    /\ raced = {}
    /\ running = FALSE
    /\ loops = <<>>
    /\ websockets = NoSockets

\* the steps of a loop task resumed from its sleep or run for the first time
loop_wake(t) ==
    \/ loop_exit(t)
    \/ \E failAt \in 0..MaxIds :
          \/ loop_sweep(t, <<>>, TRUE, failAt)
          \/ \E order \in Orders(Due(store, clock)) :
                loop_sweep(t, order, FALSE, failAt)

NextMonitor ==
    \/ Tick
    \/ connect
    \/ \E q \in Questions, c \in Callers, s \in Sessions :
          create_help_request(q, c, s, FALSE)
    \/ start
    \/ stop
    \/ \E t \in 1..MaxLoops : loop_wake(t)
    \/ \E t \in 1..MaxLoops, ok \in BOOLEAN, failAt \in 0..MaxIds :
          loop_resume(t, ok, failAt)

SpecMonitor == InitMonitor /\ [][NextMonitor]_vars

\* The event loop resumes a task when the timer of its asyncio.sleep fires
\* and runs a new task: a loop task that is ready or asleep does take its
\* next step.  Nothing promises that a send_json ever returns.
SpecMonitorFair ==
    SpecMonitor /\ \A t \in 1..MaxLoops : WF_vars(loop_wake(t))

\* ---------------------------------------------------------------- the hub
\* ConnectionManager on its own, with several websockets and several
\* broadcasts in flight.  The coroutine that runs the h-th broadcast is kept
\* in handlers[h].  History: regs is the registry as it was when the
\* broadcast was entered.
HubConnIds == 1..MaxHubConns
HubSlots == 1..MaxHubEvents

\* the messages handed to broadcast
Messages == {[type |-> "knowledge_base_updated"]}

\* a connection whose send_json may never return
SlowConn == 1

\* ConnectionManager.connect for a new websocket object
hub_connect ==
    /\ nextConn < MaxHubConns
    /\ nextConn' = nextConn + 1
    /\ active_connections' = Append(active_connections, nextConn + 1)
    /\ UNCHANGED <<websockets, clock, HELP_REQUEST_TIMEOUT_HOURS, store, created, nextId,
                   kb, events, recv, callbacks, sweep, handlers, raced,
                   running, loops>>

\* ConnectionManager.broadcast from its entry to its first suspension: with
\* an empty registry it returns at once, otherwise it is suspended in
\* send_json to the first connection of the list
broadcast(message) ==
    LET h == Len(events) + 1 IN
    /\ Len(events) < MaxHubEvents
    /\ events' = Append(events, message)
    /\ IF active_connections = <<>>
       THEN handlers' = handlers
       ELSE handlers' = [handlers EXCEPT ![h] =
                [state |-> "send", kind |-> "notify", result |-> NoBody,
                 bc |-> BroadcastStart(h, active_connections),
                 regs |-> active_connections]]
    /\ UNCHANGED <<websockets, clock, HELP_REQUEST_TIMEOUT_HOURS, store, created, nextId,
                   kb, active_connections, nextConn, recv, callbacks, sweep,
                   raced, running, loops>>

InitHub ==
    /\ clock = 0
    /\ HELP_REQUEST_TIMEOUT_HOURS = DefaultTimeoutHours
    /\ store = [id \in {} |-> NoBody]
    /\ created = [id \in {} |-> NoBody]
    /\ nextId = 0
    /\ kb = <<>>
    /\ active_connections = <<>>
    /\ nextConn = 0
    /\ events = <<>>
    /\ recv = [c \in HubConnIds |-> [m \in 1..MaxHubEvents |-> 0]]
    /\ callbacks = <<>>
    /\ sweep = Sleeping
    /\ handlers = [h \in HubSlots |-> Idle]
    /\ raced = {}
    /\ running = TRUE
    /\ loops = <<>>
    /\ websockets = NoSockets

NextHub ==
    \/ hub_connect
    \/ \E c \in HubConnIds : disconnect(c)
    \/ \E message \in Messages : broadcast(message)
    \/ \E h \in HubSlots, ok \in BOOLEAN : handler_resume(h, ok)

SpecHub == InitHub /\ [][NextHub]_vars

\* the send_json a broadcast awaits, to a connection other than SlowConn,
\* returns or raises
healthy_resume(h) ==
    \E ok \in BOOLEAN :
        /\ handlers[h] # Idle
        /\ handlers[h].bc.conn # SlowConn
        /\ handler_resume(h, ok)

\* the fan-out alone, no websocket leaving
NextHubSend ==
    \/ hub_connect
    \/ \E message \in Messages : broadcast(message)
    \/ \E h \in HubSlots, ok \in BOOLEAN : handler_resume(h, ok)

\* Every send to a connection other than SlowConn ends, and the event loop
\* then resumes the broadcast; the send to SlowConn may never end.
SpecHubFair ==
    InitHub /\ [][NextHubSend]_vars /\ \A h \in HubSlots : WF_vars(healthy_resume(h))

\* the registry as it was when the broadcast of event h was entered
RegsOf(h) == IF handlers[h] = Idle THEN <<>> ELSE handlers[h].regs

\* ----------------------------------------------------- the live channel
\* websocket_supervisor_endpoint, one coroutine per accepted websocket, next to the
\* broadcasts of the hub.  It is suspended in receive_text (pc "receive") or
\* in send_text (pc "send"), or it has returned (pc "done").
SocketIds == 1..MaxSockets

\* what a client may send
Payloads == {"ping", "pong"}

\* `if data == "ping"`, without the comparison
IsProbeAny(data) == data \in Payloads

\* `if data == "ping"`
IsProbe(data) == data = "ping"

\* websocket_supervisor_endpoint from its entry to its first receive_text:
\* connection_manager.connect accepts and registers the websocket
websocket_supervisor_endpoint ==
    LET c == nextConn + 1 IN
    /\ nextConn < MaxSockets
    /\ nextConn' = c
    /\ active_connections' = Append(active_connections, c)
    /\ websockets' = [websockets EXCEPT ![c] =
                          [pc |-> "receive", received |-> <<>>, sent |-> <<>>]]
    /\ UNCHANGED <<clock, HELP_REQUEST_TIMEOUT_HOURS, store, created, nextId,
                   kb, events, recv, callbacks, sweep, handlers, raced,
                   running, loops>>

\* receive_text returns data; a probe takes the coroutine into send_text,
\* anything else back to receive_text
receive_text(c, data) ==
    /\ websockets[c].pc = "receive"
    /\ Len(websockets[c].received) < MaxPayloads
    /\ websockets' = [websockets EXCEPT
           ![c].received = Append(@, data),
           ![c].pc = IF IsProbe(data) THEN "send" ELSE "receive"]
    /\ UNCHANGED <<clock, HELP_REQUEST_TIMEOUT_HOURS, store, created, nextId,
                   kb, active_connections, nextConn, events, recv, callbacks,
                   sweep, handlers, raced, running, loops>>

\* send_text("pong") returns (ok) or raises; `except Exception` disconnects
send_text(c, ok) ==
    /\ websockets[c].pc = "send"
    /\ IF ok
       THEN /\ websockets' = [websockets EXCEPT ![c].sent = Append(@, "pong"),
                                                ![c].pc = "receive"]
            /\ active_connections' = active_connections
       ELSE /\ websockets' = [websockets EXCEPT ![c].pc = "done"]
            /\ active_connections' = Remove(active_connections, c)
    /\ UNCHANGED <<clock, HELP_REQUEST_TIMEOUT_HOURS, store, created, nextId,
                   kb, nextConn, events, recv, callbacks, sweep, handlers,
                   raced, running, loops>>

\* receive_text raises WebSocketDisconnect (or anything else): the transport
\* reports closure and the endpoint disconnects
websocket_disconnect(c) ==
    /\ websockets[c].pc = "receive"
    /\ websockets' = [websockets EXCEPT ![c].pc = "done"]
    /\ active_connections' = Remove(active_connections, c)
    /\ UNCHANGED <<clock, HELP_REQUEST_TIMEOUT_HOURS, store, created, nextId,
                   kb, nextConn, events, recv, callbacks, sweep, handlers,
                   raced, running, loops>>

NextSocket ==
    \/ websocket_supervisor_endpoint
    \/ \E c \in SocketIds, data \in Payloads : receive_text(c, data)
    \/ \E c \in SocketIds, ok \in BOOLEAN : send_text(c, ok)
    \/ \E c \in SocketIds : websocket_disconnect(c)
    \/ \E message \in Messages : broadcast(message)
    \/ \E h \in HubSlots, ok \in BOOLEAN : handler_resume(h, ok)

SpecSocket == InitHub /\ [][NextSocket]_vars

\* the probes among the payloads a websocket received
Probes(c) == SelectSeq(websockets[c].received, LAMBDA d : d = "ping")

\* ------------------------------------------------------------ the export
\* FirebaseService.get_kb_as_dict.  Here a question is the sequence of its
\* characters, so that slicing, lower-casing and replacing act on it.
PrefixLen == 50

\* 49 characters
Stem == [k \in 1..(PrefixLen - 1) |-> "a"]

\* questions that differ in case, in space against underscore, and beyond
\* the 50th character only
ExportQuestions ==
    {<<>>,
     <<"H", "i", " ", "U">>,
     <<"h", "i", "_", "u">>,
     Stem \o <<" ", "x">>,
     Stem \o <<"_", "y">>}

ExportAnswers == {"a1", "a2"}

\* the upper-case letters of ExportQuestions
UpperCase == {"H", "U"}

\* str.lower() on one character
lower(ch) == CASE ch = "H" -> "h" [] ch = "U" -> "u" [] OTHER -> ch

\* str.replace(" ", "_") on one character
replace(ch) == IF ch = " " THEN "_" ELSE ch

\* a key made of the whole question
NormKeyWhole(question) ==
    [k \in 1..Len(question) |-> replace(lower(question[k]))]

\* question[:50].lower().replace(" ", "_")
NormKey(question) ==
    LET prefix == SubSeq(question, 1, IF Len(question) < PrefixLen
                                      THEN Len(question) ELSE PrefixLen)
    IN [k \in 1..Len(prefix) |-> replace(lower(prefix[k]))]

\* what ref.get() returns for /knowledge_base: the entries under their ids
\* and the markers
KbData(entries) ==
    [key \in 1..Len(entries) \cup MarkerKeys |->
        IF key \in MarkerKeys THEN NoBody ELSE entries[key]]

\* kb_dict after the first n items of data.items(), iterated in the given
\* order: a later entry with the same key overwrites an earlier one
RECURSIVE KbDictAfter(_, _, _)
KbDictAfter(data, order, n) ==
    IF n = 0 THEN <<>>
    ELSE LET kb_dict == KbDictAfter(data, order, n - 1)
             entry == data[order[n]]
         IN IF IsDict(entry)
            THEN (NormKey(entry.question) :> entry.answer) @@ kb_dict
            ELSE kb_dict

\* FirebaseService.get_kb_as_dict on the data it read
get_kb_as_dict(data, order) == KbDictAfter(data, order, Len(order))

\* the entry add_to_knowledge_base or create_kb_entry builds
ExportEntry(kb_id, question, answer, source) ==
    IF source = LEARNED THEN LearnedEntry(kb_id, question, answer, 0)
    ELSE ManualEntry(kb_id, question, answer, 0)

\* the knowledge bases of n entries
RECURSIVE ExportStores(_)
ExportStores(n) ==
    IF n = 0 THEN {<<>>}
    ELSE {Append(entries, ExportEntry(n, q, a, src)) :
              entries \in ExportStores(n - 1), q \in ExportQuestions,
              a \in ExportAnswers, src \in {LEARNED, MANUAL}}

\* add_to_knowledge_base and create_kb_entry: the write of one more entry
kb_write(question, answer, source) ==
    /\ Len(kb) < MaxExport
    /\ kb' = Append(kb, ExportEntry(Len(kb) + 1, question, answer, source))
    /\ UNCHANGED <<clock, HELP_REQUEST_TIMEOUT_HOURS, store, created, nextId,
                   active_connections, nextConn, events, recv, callbacks,
                   sweep, handlers, raced, running, loops, websockets>>

InitExport ==
    \E n \in 0..MaxExport :
        /\ kb \in ExportStores(n)
        /\ clock = 0
        /\ HELP_REQUEST_TIMEOUT_HOURS = DefaultTimeoutHours
        /\ store = [id \in {} |-> NoBody]
        /\ created = [id \in {} |-> NoBody]
        /\ nextId = 0
        /\ active_connections = <<>>
        /\ nextConn = 0
        /\ events = <<>>
        /\ recv = [c \in ConnIds |-> [m \in 1..MaxEvents |-> 0]]
        /\ callbacks = <<>>
        /\ sweep = Sleeping
        /\ handlers = [h \in HandlerSlots |-> Idle]
        /\ raced = {}
        /\ running = TRUE
        /\ loops = <<>>
        /\ websockets = NoSockets

NextExport ==
    \E q \in ExportQuestions, a \in ExportAnswers, src \in {LEARNED, MANUAL} :
        kb_write(q, a, src)

SpecExport == InitExport /\ [][NextExport]_vars

\* ------------------------------------------------------ repeated Resolve
\* Create, Resolve and the sweeps with no websocket registered, and room for
\* MaxResolves learned entries
NextResolve ==
    \/ Tick
    \/ \E q \in Questions, c \in Callers, s \in Sessions :
          create_help_request(q, c, s, FALSE)
    \/ \E id \in Ids, a \in Answers, s \in Supervisors,
          fail \in {"none", "get", "set", "kb"} :
              KbRoom(MaxResolves, id, fail) /\ answer_request(id, a, s, fail)
    \/ \E order \in Orders(Due(store, clock)), failAt \in 0..MaxIds :
          process_timeouts(order, FALSE, failAt)

SpecResolve == Init /\ [][NextResolve]_vars

\* ------------------------------------------------- the sweep under fairness
\* The loop task of the running monitor with Create, several websockets and
\* the clock; no Resolve and no Delete.
NextSweep ==
    \/ Tick
    \/ hub_connect
    \/ \E q \in Questions, c \in Callers, s \in Sessions :
          create_help_request(q, c, s, FALSE)
    \/ \E failAt \in 0..MaxIds :
          \/ process_timeouts(<<>>, TRUE, failAt)
          \/ \E order \in Orders(Due(store, clock)) :
                process_timeouts(order, FALSE, failAt)
    \/ \E ok \in BOOLEAN, failAt \in 0..MaxIds : sweep_resume(ok, failAt)

\* the loop wakes from its sleep and runs a sweep in which no store call
\* raises
good_sweep ==
    \E order \in Orders(Due(store, clock)) : process_timeouts(order, FALSE, 0)

\* the send_json the sweep awaits, to a connection other than SlowConn,
\* returns or raises, and no store call raises in the run that follows
healthy_sweep_resume ==
    \E ok \in BOOLEAN :
        /\ sweep.pc = "send"
        /\ sweep.bc.conn # SlowConn
        /\ sweep_resume(ok, 0)

\* The monitor is running: its sleep ends, and the store is available again
\* and again; every send to a connection other than SlowConn ends.  The send
\* to SlowConn may never end.
SpecSweepFair ==
    /\ InitHub
    /\ [][NextSweep]_vars
    /\ WF_vars(Tick)
    /\ SF_vars(good_sweep)
    /\ WF_vars(healthy_sweep_resume)

\* the status of the record under id, "absent" when there is none
StatusOf(id) == IF id \in DOMAIN store THEN store[id].status ELSE "absent"

\* the record under id is pending and its deadline has passed
Overdue(id) ==
    /\ StatusOf(id) = PENDING
    /\ store[id].timeout_at <= clock

\* ------------------------------------------------------------- the startup
\* What create_initial_data leaves under /help_requests: ref.set replaces
\* the whole node by the two markers, so no record is left.  fail: the store
\* call that raises, "requests", "kb" or "none"; the exception is caught and
\* the rest of the function is skipped.
initial_help_requests(st, fail) ==
    IF fail = "requests" THEN st ELSE [id \in {} |-> NoBody]

\* what create_initial_data leaves under /knowledge_base
initial_knowledge_base(entries, fail) ==
    IF fail \in {"requests", "kb"} THEN entries ELSE <<>>

\* The server process is started again: the old process is gone with its
\* websockets, its suspended routes and its loop task; lifespan calls
\* init_firebase and create_initial_data and starts a new loop task.
lifespan(fail) ==
    /\ store' = initial_help_requests(store, fail)
    /\ kb' = initial_knowledge_base(kb, fail)
    /\ active_connections' = <<>>
    /\ handlers' = [h \in DOMAIN handlers |-> Idle]
    /\ sweep' = Sleeping
    /\ UNCHANGED <<clock, HELP_REQUEST_TIMEOUT_HOURS, created, nextId,
                   nextConn, events, recv, callbacks, raced, running, loops,
                   websockets>>

NextRestart ==
    \/ \E fail \in {"none", "requests", "kb"} : lifespan(fail)
    \/ Next

SpecRestart == Init /\ [][NextRestart]_vars

\* --------------------------------------------------------------- the agent
\* SalonAssistant.request_help.  What client.post gives: a response with a
\* status code, or one of the exceptions of the transport.
TimeoutException == [exception |-> "httpx.TimeoutException"]
ConnectError == [exception |-> "httpx.ConnectError"]
Response(status_code) == [status_code |-> status_code]

\* the sentence request_help returns
EscalationReply == "escalating your question to my supervisor"

\* response.raise_for_status() raises for the 4xx and 5xx codes
raises_for_status(response) == response.status_code >= 400

\* The text request_help returns to the customer for what client.post gave:
\* each except branch only prints, and the return statement after the try
\* is the same on every path
request_help(response) ==
    IF response = TimeoutException THEN EscalationReply
    ELSE IF response = ConnectError THEN EscalationReply
    ELSE IF raises_for_status(response) THEN EscalationReply
    ELSE EscalationReply

\* ------------------------------------------------------------ the claims
\* messages handed to broadcast, of the given types, for one escalation id
EmittedFor(id, types) ==
    {k \in 1..Len(events) : events[k].type \in types /\ events[k].data.request_id = id}

\* C1: the stored status of an escalation only ever changes pending->resolved
\* or pending->timeout; no step changes a resolved record to timeout or a
\* timeout record to resolved.
C1_StatusOnlyLeavesPending ==
    [][\A id \in (DOMAIN store) \cap (DOMAIN store') :
          store'[id].status # store[id].status =>
              /\ store[id].status = PENDING
              /\ store'[id].status \in {RESOLVED, TIMEOUT}]_vars

\* C2: an escalation that is resolved while a sweep holds its scanned pending
\* copy (between the sweep's scan read and the sweep's write for it) gets
\* exactly one of request_resolved / request_timeout, never both, and the
\* sweep's timeout transition does not succeed after the resolve.
C2_RaceExactlyOneOutcome ==
    \A id \in raced :
        /\ Cardinality(EmittedFor(id, {"request_resolved", "request_timeout"})) = 1
        /\ id \in DOMAIN store => store[id].status = RESOLVED

\* C3: Resolve on an escalation that is already resolved or already timeout
\* fails with InvalidState and leaves the record, the knowledge base and the
\* events unchanged.
C3_ResolveTerminalRejected ==
    [][\A id \in Ids, a \in Answers, s \in Supervisors :
          (/\ id \in DOMAIN store
           /\ store[id].status \in {RESOLVED, TIMEOUT}
           /\ answer_request(id, a, s, "none"))
          => /\ answer_outcome(id, "none") = "invalid_state"
             /\ store' = store
             /\ kb' = kb
             /\ events' = events]_vars

\* C4: the sweep's timeout transition is a check-and-set: a record that is no
\* longer pending in the store when the resumed sweep comes to write it is
\* left as it is and gets no request_timeout event.
C4_SweepCheckAndSet ==
    [][\A ok \in BOOLEAN, failAt \in 0..MaxIds :
          sweep_resume(ok, failAt) =>
              \A id \in SweepPendingIds \cap DOMAIN store :
                  store[id].status # PENDING =>
                      /\ store'[id] = store[id]
                      /\ \A k \in (Len(events) + 1)..Len(events') :
                            ~(/\ events'[k].type = "request_timeout"
                              /\ events'[k].data.request_id = id)]_vars

\* C5: in every store state, for every escalation record, answer, answered_by
\* and resolved_at are all set or all absent, and set iff status = resolved.
C5_AnswerFieldsIffResolved ==
    \A id \in DOMAIN store :
        /\ (store[id].status = RESOLVED) <=> (store[id].answer # None)
        /\ (store[id].answer # None) <=> (store[id].answered_by # None)
        /\ (store[id].answer # None) <=> (store[id].resolved_at # NoTime)

\* a resolved record stands next to one the sweep timed out
C5_Witness ==
    /\ \E id \in DOMAIN store : store[id].status = RESOLVED /\ store[id].answer \in Answers
    /\ \E id \in DOMAIN store : store[id].status = TIMEOUT

\* C6: no operation after Create changes timeout_at, id, question,
\* caller_info, created_at or session_id of an escalation: a stored record
\* carries the values written at creation.
C6_CreationFieldsFrozen ==
    \A id \in DOMAIN store :
        /\ store[id].timeout_at = created[id].timeout_at
        /\ store[id].id = created[id].id
        /\ store[id].question = created[id].question
        /\ store[id].caller_info = created[id].caller_info
        /\ store[id].created_at = created[id].created_at
        /\ store[id].session_id = created[id].session_id

\* a record resolved inside a sweep's window has been written by both the
\* resolve and the sweep
C6_Witness ==
    \E id \in raced \cap DOMAIN store : store[id].status = TIMEOUT /\ clock > 0

\* C7: Resolve on a pending escalation stores and returns the record with
\* status resolved, the given answer and answered_by and a resolved_at, and
\* adds exactly one knowledge entry: learned, use_count 0, the escalation's
\* question, the given answer.
C7_ResolvePending ==
    [][\A id \in Ids, a \in Answers, s \in Supervisors :
          (/\ id \in DOMAIN store
           /\ store[id].status = PENDING
           /\ answer_request(id, a, s, "none"))
          => /\ store'[id].status = RESOLVED
             /\ store'[id].answer = a
             /\ store'[id].answered_by = s
             /\ store'[id].resolved_at = clock
             /\ Len(kb') = Len(kb) + 1
             /\ SubSeq(kb', 1, Len(kb)) = kb
             /\ kb'[Len(kb')].source = LEARNED
             /\ kb'[Len(kb')].use_count = 0
             /\ kb'[Len(kb')].question = store[id].question
             /\ kb'[Len(kb')].answer = a
             /\ answer_status(answer_outcome(id, "none")) = 200
             /\ active_connections # <<>> =>
                   handlers'[FirstFree].result = HelpRequestResponse(store'[id])
             /\ active_connections = <<>> =>
                   callbacks'[Len(callbacks')] = CustomerCallback(store'[id])]_vars

\* a pending record was resolved and its learned entry is in the knowledge base
C7_Witness ==
    /\ Len(kb) >= 1
    /\ \E id \in DOMAIN store :
          /\ store[id].status = RESOLVED
          /\ kb[Len(kb)].question = store[id].question
          /\ kb[Len(kb)].answer = store[id].answer

\* C8: Resolve on an id without a record fails with NotFound (404, apart from
\* the 500 of other failures) and changes nothing.
C8_ResolveUnknownNotFound ==
    /\ [](\A id \in Ids \ DOMAIN store :
            answer_status(answer_outcome(id, "none")) = 404)
    /\ [][\A id \in Ids, a \in Answers, s \in Supervisors :
            (id \notin DOMAIN store /\ answer_request(id, a, s, "none"))
            => UNCHANGED <<store, kb, events>>]_vars

\* C9: for every configured timeout duration D, Create stores a pending
\* record without answer, answered_by, resolved_at and with
\* timeout_at = created_at + D.
C9_TimeoutAtFromConfig ==
    \A id \in DOMAIN store :
        /\ store[id].status = PENDING
        /\ store[id].answer = None
        /\ store[id].answered_by = None
        /\ store[id].resolved_at = NoTime
        /\ store[id].timeout_at = store[id].created_at + HELP_REQUEST_TIMEOUT_HOURS

\* C10: every successful Create, once the record is persisted, has handed to
\* broadcast a new_request message with the record's request_id, question,
\* caller_info and created_at.
C10_CreateEmitsNewRequest ==
    \A id \in DOMAIN created :
        \E k \in 1..Len(events) :
            /\ events[k].type = "new_request"
            /\ events[k].data = [request_id |-> id,
                                 question |-> created[id].question,
                                 caller_info |-> created[id].caller_info,
                                 created_at |-> created[id].created_at]

\* C11: a Create call with an empty question is rejected: no stored
\* escalation record has an empty question, and no event is about one.
C11_EmptyQuestionRejected ==
    /\ \A id \in DOMAIN store : store[id].question # ""
    /\ \A k \in 1..Len(events) :
          events[k].type = "new_request" => events[k].data.question # ""

\* ids generated by a Create whose store write raised
FailedCreates == (1..nextId) \ DOMAIN created

\* C12: when the store write of Create fails, the caller gets the failure
\* (status 500, not 201), no record exists under the generated id and no
\* new_request event names it.
C12_FailedCreatePropagated ==
    /\ create_status(create_outcome(TRUE)) = 500
    /\ \A id \in FailedCreates :
          /\ id \notin DOMAIN store
          /\ EmittedFor(id, {"new_request"}) = {}

\* one Create failed on its write and a later one succeeded
C12_Witness ==
    \E id \in FailedCreates : \E later \in DOMAIN store : later > id

\* request_timeout messages for one id in a sequence of messages
TimeoutsIn(ev, id) ==
    {k \in 1..Len(ev) : ev[k].type = "request_timeout" /\ ev[k].data.request_id = id}

\* C13: when a sweep that met no store error ends, every record it found
\* pending and due (and that no Resolve changed meanwhile) has status timeout
\* and exactly one request_timeout message; and no id ever has two
\* request_timeout messages, whatever sweeps follow.
C13_SweepTimesOutOnce ==
    /\ [](\A id \in Ids : Cardinality(TimeoutsIn(events, id)) <= 1)
    /\ [][/\ \A order \in Orders(Due(store, clock)) :
                (process_timeouts(order, FALSE, 0) /\ sweep'.pc = "sleep") =>
                    \A k \in 1..Len(order) :
                        /\ store'[order[k]].status = TIMEOUT
                        /\ Cardinality(TimeoutsIn(events', order[k])) = 1
          /\ \A ok \in BOOLEAN :
                (sweep_resume(ok, 0) /\ sweep'.pc = "sleep") =>
                    \A k \in 1..Len(sweep.timed_out_requests) :
                        LET id == sweep.timed_out_requests[k].id IN
                        (id \in DOMAIN store' /\ store'[id].status # RESOLVED) =>
                            /\ store'[id].status = TIMEOUT
                            /\ Cardinality(TimeoutsIn(events', id)) = 1]_vars

\* a sweep that was suspended in its broadcast has ended: a record is timed
\* out, its one request_timeout message reached a supervisor, and another
\* record is still pending
C13_Witness ==
    /\ sweep.pc = "sleep"
    /\ \E id \in DOMAIN store :
          /\ store[id].status = TIMEOUT
          /\ \E k \in TimeoutsIn(events, id) : \E c \in ConnIds : recv[c][k] = 1
    /\ \E id \in DOMAIN store : store[id].status = PENDING

\* C14: a sweep ended by a store error (on the scan read or on a write) leaves
\* its loop task in the sleep of the loop, never returned; and while the
\* monitor stays running that task starts another sweep.
C14_ErrorNeverEndsLoop ==
    /\ [][\A t \in 1..Len(loops) :
             (/\ loops'[t].failed
              /\ loops[t].pc = "send" \/ loops'[t].sweeps # loops[t].sweeps)
             => loops'[t].pc = "sleep"]_vars
    /\ \A t \in 1..MaxLoops, b \in {0, 1} :
          (/\ LoopAt(t).pc = "sleep"
           /\ LoopAt(t).failed
           /\ LoopAt(t).sweeps = b
           /\ running)
          ~> (~running \/ LoopAt(t).sweeps # b)

\* a write of a running loop's sweep raised: the task sleeps and the record
\* is still pending and due
C14_Witness ==
    /\ running
    /\ \E t \in 1..Len(loops) : loops[t].failed /\ loops[t].pc = "sleep"
    /\ Due(store, clock) # {}

\* C15: once Stop() has returned (running is False) no sweep-loop task is
\* left alive.
C15_StopLeavesNoLoop ==
    ~running => Alive = {}

\* C16: whatever Start() and Stop() calls are made, at most one sweep loop is
\* alive.
C16_AtMostOneLoop ==
    Cardinality(Alive) <= 1

\* C17: when a broadcast ends with the registry as it was when the broadcast
\* was entered, every connection of it has had its send: those whose send
\* returned have the event once, those whose send raised are removed, and
\* the registry left for the next broadcast is exactly the ones that have it.
C17_BroadcastReachesAll ==
    [][\A h \in HubSlots, ok \in BOOLEAN :
          (/\ handlers[h] # Idle
           /\ ~BroadcastMore(handlers[h].bc, active_connections)
           /\ active_connections = handlers[h].regs
           /\ handler_resume(h, ok))
          => /\ active_connections' =
                   SelectSeq(handlers[h].regs, LAMBDA c : recv'[c][h] = 1)
             /\ \A c \in HubConnIds :
                   InSeq(c, handlers[h].regs) => recv'[c][h] <= 1]_vars

\* a broadcast over three connections stands at its last send; one of the
\* two sends before it raised, the other delivered the event
C17_Witness ==
    \E h \in HubSlots :
        /\ handlers[h] # Idle
        /\ Len(handlers[h].regs) = 3
        /\ active_connections = handlers[h].regs
        /\ handlers[h].bc.next = 4
        /\ Len(handlers[h].bc.failed) = 1
        /\ \E c \in HubConnIds : recv[c][h] = 1

\* C18: when a broadcast ends, every connection that was registered when it
\* was entered and still is has had exactly one send of the event (it has the
\* event once, or its send raised), whatever connect, disconnect and other
\* broadcast steps came in between.
C18_InterleavingSkipsNone ==
    [][\A h \in HubSlots, ok \in BOOLEAN :
          (/\ handlers[h] # Idle
           /\ ~BroadcastMore(handlers[h].bc, active_connections)
           /\ handler_resume(h, ok))
          => \A c \in HubConnIds :
                (InSeq(c, handlers[h].regs) /\ InSeq(c, active_connections)) =>
                    \/ recv'[c][h] = 1
                    \/ InSeq(c, FailedAfter(handlers[h].bc, ok))]_vars

\* C19: while the send to one connection does not return, every other
\* connection that was registered when the broadcast was entered still gets
\* the event (or is removed because its own send raised), and the coroutine
\* that called broadcast gets out of it.
C19_SlowSendBlocksNobody ==
    \A h \in HubSlots :
        /\ \A c \in HubConnIds \ {SlowConn} :
              InSeq(c, RegsOf(h)) ~>
                  (recv[c][h] >= 1 \/ ~InSeq(c, active_connections))
        /\ (handlers[h] # Idle) ~> (handlers[h] = Idle)

\* C20: no connection gets the same event twice, and a connection gets an
\* event only if it was registered when the event's broadcast was entered.
C20_AtMostOnceNoReplay ==
    /\ [](\A c \in HubConnIds, m \in 1..MaxHubEvents : recv[c][m] <= 1)
    /\ [][\A h \in HubSlots :
             (/\ handlers[h] # Idle
              /\ recv'[handlers[h].bc.conn][h] > recv[handlers[h].bc.conn][h])
             => InSeq(handlers[h].bc.conn, handlers[h].regs)]_vars

\* C21: a send that raises inside a broadcast is not surfaced to the operation
\* that called it: the step changes no record, no knowledge entry and no
\* event, a route handler goes on to its next send or ends as after a good
\* send (the answer route with its customer callback), and the sweep goes on
\* to write every record it still holds.
C21_DeliveryFailureNotSurfaced ==
    [][/\ \A h \in HandlerSlots \cup KbSlots :
             (handlers[h] # Idle /\ handler_resume(h, FALSE)) =>
                 /\ store' = store
                 /\ kb' = kb
                 /\ events' = events
                 /\ IF BroadcastMore(handlers[h].bc, active_connections)
                    THEN /\ handlers'[h] # Idle
                         /\ handlers'[h].result = handlers[h].result
                    ELSE /\ handlers'[h] = Idle
                         /\ handlers[h].kind = "answer" =>
                               callbacks' = Append(callbacks,
                                                   CustomerCallback(handlers[h].result))
       /\ (sweep.pc = "send" /\ sweep_resume(FALSE, 0)) =>
             IF BroadcastMore(sweep.bc, active_connections)
             THEN sweep'.rest = sweep.rest /\ store' = store
             ELSE \A k \in 1..Len(sweep.rest) :
                     \/ store'[sweep.rest[k].id].status = TIMEOUT
                     \/ \E j \in 1..Len(sweep'.rest) : sweep'.rest[j] = sweep.rest[k]]_vars

\* the one send of the one broadcast so far, that of a request_resolved,
\* raised: the supervisor's connection is gone and has nothing, the record is
\* resolved and the customer callback was made
C21_Witness ==
    /\ Len(events) = 1
    /\ events[1].type = "request_resolved"
    /\ nextConn = 1
    /\ active_connections = <<>>
    /\ recv[1][1] = 0
    /\ Len(callbacks) = 1
    /\ \E id \in DOMAIN store : store[id].status = RESOLVED

\* the stored escalation records that have the given status
WithStatus(status) == {id \in DOMAIN store : store[id].status = status}

\* C22: GetStats gives, for pending, resolved and timeout, the number of
\* stored records with that status, and total is their sum and the number of
\* records; the marker keys are not counted.
C22_StatsCountRecords ==
    LET stats == get_stats(Data(store)) IN
    /\ stats.pending = Cardinality(WithStatus(PENDING))
    /\ stats.resolved = Cardinality(WithStatus(RESOLVED))
    /\ stats.timeout = Cardinality(WithStatus(TIMEOUT))
    /\ stats.total = stats.pending + stats.resolved + stats.timeout
    /\ stats.total = Cardinality(DOMAIN store)

\* the store with 2 pending, 1 resolved and 1 timeout, for which the
\* statistics are 2, 1, 1 and 4
C22_Witness ==
    /\ Cardinality(WithStatus(PENDING)) = 2
    /\ Cardinality(WithStatus(RESOLVED)) = 1
    /\ Cardinality(WithStatus(TIMEOUT)) = 1
    /\ get_stats(Data(store)) = [pending |-> 2, resolved |-> 1, timeout |-> 1, total |-> 4]

\* C23: when the store read fails, GetStats, ListEscalations, ListKnowledge
\* and GetEscalation answer with an error status, not with zero statistics,
\* an empty list or 404.
C23_QueriesSurfaceStoreErrors ==
    /\ stats_summary(Data(store), TRUE).status >= 500
    /\ get_help_requests(Data(store), TRUE).status >= 500
    /\ get_knowledge_base(kb, TRUE).status >= 500
    /\ \A id \in DOMAIN store : get_help_request(store, id, TRUE).status >= 500

\* C24: a Resolve that answers its caller with a failure has changed nothing:
\* the escalation record is as it was before the call and no event was
\* emitted.
C24_FailedResolveLeavesNoTrace ==
    [][\A id \in Ids, a \in Answers, s \in Supervisors,
          fail \in {"get", "set", "kb"} :
          (/\ answer_request(id, a, s, fail)
           /\ answer_status(answer_outcome(id, fail)) # 200)
          => /\ store' = store
             /\ events' = events]_vars

\* C25: the knowledge base only grows, one entry at a time, and no entry in
\* it is changed or removed; a successful Resolve adds exactly one entry
\* tagged learned with use_count 0, a successful manual create adds exactly
\* one entry tagged manual, also when an entry with the same question is
\* already there.
C25_KnowledgeAppendOnly ==
    [][/\ Len(kb') \in {Len(kb), Len(kb) + 1}
       /\ SubSeq(kb', 1, Len(kb)) = kb
       /\ \A id \in Ids, a \in Answers, s \in Supervisors :
             (id \in DOMAIN store /\ answer_request(id, a, s, "none")) =>
                 /\ Len(kb') = Len(kb) + 1
                 /\ kb'[Len(kb')].source = LEARNED
                 /\ kb'[Len(kb')].use_count = 0
                 /\ kb'[Len(kb')].question = store[id].question
                 /\ kb'[Len(kb')].answer = a
                 /\ \A k \in 1..Len(kb) : kb'[Len(kb')].id # kb[k].id
       /\ \A q \in KbQuestions \ {""}, a \in KbAnswers \ {""} :
             create_kb_entry(q, a, FALSE) =>
                 /\ Len(kb') = Len(kb) + 1
                 /\ kb'[Len(kb')].source = MANUAL
                 /\ kb'[Len(kb')].use_count = 0
                 /\ kb'[Len(kb')].question = q
                 /\ kb'[Len(kb')].answer = a
                 /\ \A k \in 1..Len(kb) : kb'[Len(kb')].id # kb[k].id]_vars

\* two entries with the same question, one learned and one manual
C25_Witness ==
    /\ Len(kb) = 2
    /\ kb[1].question = kb[2].question
    /\ kb[1].source = MANUAL
    /\ kb[2].source = LEARNED

\* C26: on the live channel every "ping" received is answered with exactly
\* one "pong" on the same websocket (the last one is outstanding while its
\* send_text is awaited, and lost when that send raises), nothing else is
\* ever sent by the endpoint, and a payload other than "ping" produces no
\* reply and changes neither the registry nor any record.
C26_PingAnsweredOnce ==
    /\ [](\A c \in SocketIds :
            /\ \A k \in 1..Len(websockets[c].sent) : websockets[c].sent[k] = "pong"
            /\ websockets[c].pc \in {"none", "receive"} =>
                   Len(websockets[c].sent) = Len(Probes(c))
            /\ websockets[c].pc = "send" =>
                   Len(websockets[c].sent) = Len(Probes(c)) - 1
            /\ websockets[c].pc = "done" =>
                   Len(websockets[c].sent) \in {Len(Probes(c)) - 1, Len(Probes(c))})
    /\ [][/\ \A c \in SocketIds, data \in Payloads \ {"ping"} :
                receive_text(c, data) =>
                    /\ \A d \in SocketIds : websockets'[d].sent = websockets[d].sent
                    /\ websockets'[c].pc = "receive"
                    /\ UNCHANGED <<active_connections, store, kb>>
          /\ \A c \in SocketIds :
                (websockets[c].pc = "send" /\ send_text(c, TRUE)) =>
                    /\ websockets'[c].sent = Append(websockets[c].sent, "pong")
                    /\ \A d \in SocketIds \ {c} :
                           websockets'[d].sent = websockets[d].sent]_vars

\* a websocket that received something else and then a probe, and was sent
\* one pong
C26_Witness ==
    \E c \in SocketIds :
        /\ websockets[c].received = <<"pong", "ping">>
        /\ websockets[c].sent = <<"pong">>
        /\ websockets[c].pc = "receive"

\* the answer routes suspended in the broadcast of request_resolved
AnswerHandlers == {h \in DOMAIN handlers : handlers[h] # Idle /\ handlers[h].kind = "answer"}

\* C27: a successful Resolve writes the resolved record, then the learned
\* entry, then hands request_resolved (request_id, answer, answered_by,
\* resolved_at) to broadcast, and emits the customer callback with the
\* original caller_info and the answer once that broadcast has returned,
\* each exactly once; a Resolve that fails at the knowledge-base write has
\* done the first effect only; request_resolved is handed to broadcast only
\* in a step that leaves the record resolved in the store.
C27_ResolveEffectsInOrder ==
    /\ [](/\ Len(SelectSeq(events, LAMBDA m : m.type = "request_resolved"))
                 = Len(LearnedEntries)
          /\ Len(callbacks) + Cardinality(AnswerHandlers)
                 = Len(SelectSeq(events, LAMBDA m : m.type = "request_resolved")))
    /\ [][/\ \A id \in Ids, a \in Answers, s \in Supervisors :
               /\ (id \in DOMAIN store /\ answer_request(id, a, s, "kb")) =>
                      /\ store'[id].status = RESOLVED
                      /\ UNCHANGED <<kb, events, callbacks, handlers>>
               /\ (id \in DOMAIN store /\ answer_request(id, a, s, "none")) =>
                      /\ store'[id].status = RESOLVED
                      /\ store'[id].answer = a
                      /\ kb' = Append(kb, LearnedEntry(Len(kb) + 1, store[id].question, a, clock))
                      /\ events' = Append(events,
                             [type |-> "request_resolved",
                              data |-> [request_id |-> id, answer |-> a,
                                        answered_by |-> s,
                                        resolved_at |-> store'[id].resolved_at],
                              timestamp |-> clock])
                      /\ IF active_connections = <<>>
                         THEN /\ callbacks' = Append(callbacks,
                                     [caller_info |-> created[id].caller_info,
                                      question |-> created[id].question,
                                      answer |-> a, answered_by |-> s])
                              /\ AnswerHandlers' = AnswerHandlers
                         ELSE /\ callbacks' = callbacks
                              /\ Cardinality(AnswerHandlers') = Cardinality(AnswerHandlers) + 1
          /\ \A h \in HandlerSlots, ok \in BOOLEAN :
               (handlers[h] # Idle /\ handlers[h].kind = "answer"
                    /\ handler_resume(h, ok)) =>
                   IF handlers'[h] # Idle
                   THEN callbacks' = callbacks
                   ELSE callbacks' = Append(callbacks,
                            [caller_info |-> created[handlers[h].result.id].caller_info,
                             question |-> created[handlers[h].result.id].question,
                             answer |-> handlers[h].result.answer,
                             answered_by |-> handlers[h].result.answered_by])
          /\ (events' # events /\ events'[Len(events')].type = "request_resolved") =>
                 LET id == events'[Len(events')].data.request_id IN
                 /\ id \in DOMAIN store'
                 /\ store'[id].status = RESOLVED
                 /\ store'[id].resolved_at = events'[Len(events')].data.resolved_at]_vars

\* a resolved record, its learned entry, its request_resolved delivered to a
\* connection and, after that, its customer callback
C27_Witness ==
    /\ Len(events) >= 1
    /\ events[Len(events)].type = "request_resolved"
    /\ \E c \in ConnIds : recv[c][Len(events)] = 1
    /\ Len(callbacks) = 1
    /\ Len(LearnedEntries) = 1
    /\ AnswerHandlers = {}
    /\ \E id \in DOMAIN store : store[id].status = RESOLVED

\* C28: the exported map has a key for the normalized prefix of every stored
\* entry's question (at most its first 50 characters, upper-case letters
\* lower-cased, spaces replaced by underscores, every other character kept),
\* the value of every key is the answer of a stored entry with that
\* normalized prefix, and the marker keys add nothing; this for every order
\* in which the store hands out its items.
C28_ExportByNormalizedPrefix ==
    /\ \A q \in ExportQuestions :
          /\ Len(NormKey(q)) = (IF Len(q) < 50 THEN Len(q) ELSE 50)
          /\ \A k \in 1..Len(NormKey(q)) :
                NormKey(q)[k] = (IF q[k] = " " THEN "_"
                                 ELSE IF q[k] = "H" THEN "h"
                                 ELSE IF q[k] = "U" THEN "u"
                                 ELSE q[k])
    /\ \A order \in Orders(DOMAIN KbData(kb)) :
          LET kb_dict == get_kb_as_dict(KbData(kb), order) IN
          /\ \A k \in 1..Len(kb) : NormKey(kb[k].question) \in DOMAIN kb_dict
          /\ \A key \in DOMAIN kb_dict :
                \E k \in 1..Len(kb) : /\ NormKey(kb[k].question) = key
                                      /\ kb[k].answer = kb_dict[key]

\* two entries with different answers whose questions differ beyond the
\* 50th character and in space against underscore: one key, and either
\* answer under it, depending on the order of the items
C28_Witness ==
    /\ Len(kb) = 2
    /\ kb[1].question = Stem \o <<" ", "x">>
    /\ kb[2].question = Stem \o <<"_", "y">>
    /\ kb[1].answer # kb[2].answer
    /\ \E o1, o2 \in Orders(DOMAIN KbData(kb)) :
          /\ DOMAIN get_kb_as_dict(KbData(kb), o1) = {Stem \o <<"_">>}
          /\ get_kb_as_dict(KbData(kb), o1)[Stem \o <<"_">>] = "a1"
          /\ get_kb_as_dict(KbData(kb), o2)[Stem \o <<"_">>] = "a2"

\* the broadcasts that, in this step, start a send to connection c
AttemptsTo(c) ==
    {h \in HubSlots : /\ handlers'[h] # Idle
                      /\ handlers'[h] # handlers[h]
                      /\ handlers'[h].bc.conn = c}

\* C29: a websocket is in the registry only while its endpoint is in its
\* receive loop, and at most once; when the transport reports closure or the
\* loop fails, the step that ends the endpoint leaves the websocket out of
\* the registry; no send is started to a websocket whose endpoint has ended
\* or was never entered, and a broadcast entered after the removal does not
\* have it in the registry it walks.
C29_RegisteredOnlyWhileOpen ==
    /\ [](\A c \in 1..MaxHubConns :
            /\ InSeq(c, active_connections) =>
                   websockets[c].pc \in {"receive", "send"}
            /\ Len(SelectSeq(active_connections, LAMBDA d : d = c)) <= 1)
    /\ [][\A c \in SocketIds :
            /\ (websocket_disconnect(c) \/ (websockets[c].pc = "send" /\ send_text(c, FALSE))) =>
                   /\ websockets'[c].pc = "done"
                   /\ ~InSeq(c, active_connections')
            /\ websockets[c].pc \in {"none", "done"} =>
                   /\ AttemptsTo(c) = {}
                   /\ \A h \in HubSlots :
                          (handlers[h] = Idle /\ handlers'[h] # Idle) =>
                              ~InSeq(c, handlers'[h].regs)]_vars

\* the first websocket has closed, and a broadcast entered afterwards is
\* sending to the second, the only one in its registry
C29_Witness ==
    /\ websockets[1].pc = "done"
    /\ \E h \in HubSlots :
          /\ handlers[h] # Idle
          /\ handlers[h].regs = <<2>>
          /\ handlers[h].bc.conn = 2

\* C30: every entry in the knowledge base, written by the manual create or
\* as the learned entry of a Resolve, has a knowledge_base_updated message
\* with its question and its answer among the messages handed to broadcast.
C30_EveryEntryAnnounced ==
    \A k \in 1..Len(kb) :
        \E m \in 1..Len(events) :
            /\ events[m].type = "knowledge_base_updated"
            /\ events[m].data.question = kb[k].question
            /\ events[m].data.answer = kb[k].answer

\* C31: the knowledge endpoints answer client errors as such: the lookup of
\* an id that no entry has is answered 404, and a manual create with an
\* empty question or answer is answered 400 and adds no entry.
C31_KnowledgeClientErrors ==
    /\ \A kb_id \in 1..(MaxKb + MaxManual + 1) :
          (\A k \in 1..Len(kb) : kb[k].id # kb_id) =>
              get_kb_entry(kb, kb_id, FALSE).status = 404
    /\ \A q \in KbQuestions, a \in KbAnswers :
          (q = "" \/ a = "") =>
              /\ create_kb_outcome(q, a, FALSE) # "created"
              /\ create_kb_status(create_kb_outcome(q, a, FALSE)) = 400

\* C32: for each escalation id at most one request_resolved message is ever
\* handed to broadcast, and no more learned entries exist than ids with a
\* request_resolved message (each id gives at most one learned entry).
C32_ResolvedAtMostOnce ==
    /\ \A id \in Ids : Cardinality(EmittedFor(id, {"request_resolved"})) <= 1
    /\ Len(LearnedEntries)
           <= Cardinality({id \in Ids : EmittedFor(id, {"request_resolved"}) # {}})

\* ids of the records the sweep scanned as due: of the scan of this step when
\* the sweep starts, of the suspended sweep otherwise
ScannedIds ==
    {sweep.timed_out_requests[k].id : k \in 1..Len(sweep.timed_out_requests)}

\* id is written with status timeout, or gets a request_timeout, in this step
TimedOutNow(id) ==
    \/ /\ id \in DOMAIN store'
       /\ store'[id].status = TIMEOUT
       /\ (id \notin DOMAIN store \/ store[id] # store'[id])
    \/ TimeoutsIn(events', id) # TimeoutsIn(events, id)

\* C33: a sweep times out, and announces, only records that its scan found
\* pending with timeout_at not later than the instant the sweep read as now;
\* the list of a suspended sweep is the list of its scan; a pending record
\* that is not yet due is left as it is by every step of a sweep.
C33_NotDueNotTimedOut ==
    [][/\ \A id \in Ids :
            TimedOutNow(id) =>
                IF sweep.pc = "sleep"
                THEN /\ id \in DOMAIN store
                     /\ store[id].status = PENDING
                     /\ store[id].timeout_at <= clock
                ELSE id \in ScannedIds
       /\ (sweep.pc = "sleep" /\ sweep'.pc = "send") =>
              \A k \in 1..Len(sweep'.timed_out_requests) :
                  /\ sweep'.timed_out_requests[k].status = PENDING
                  /\ sweep'.timed_out_requests[k].timeout_at <= clock
       /\ (sweep.pc = "send" /\ sweep'.pc = "send") =>
              sweep'.timed_out_requests = sweep.timed_out_requests
       /\ \A id \in DOMAIN store :
            (/\ store[id].status = PENDING
             /\ store[id].timeout_at > clock
             /\ sweep' # sweep) =>
                /\ id \in DOMAIN store'
                /\ store'[id] = store[id]
                /\ TimeoutsIn(events', id) = TimeoutsIn(events, id)]_vars

\* a sweep has timed out the due record and left the pending record that is
\* not yet due as it was
C33_Witness ==
    /\ DOMAIN store = {1, 2}
    /\ store[1].status = TIMEOUT
    /\ store[2].status = PENDING
    /\ store[2].timeout_at > clock
    /\ store[2] = created[2]
    /\ TimeoutsIn(events, 1) # {}
    /\ TimeoutsIn(events, 2) = {}

\* id is as it was in the store, if it was there, and got no request_timeout
Untouched(id) ==
    /\ TimeoutsIn(events', id) = TimeoutsIn(events, id)
    /\ IF id \in DOMAIN store
       THEN id \in DOMAIN store' /\ store'[id] = store[id]
       ELSE id \notin DOMAIN store'

\* C34: a step that hands a request_timeout for an id to broadcast leaves
\* that id with status timeout in the store (the write comes first); when
\* the write of a record raises, that record is not written, gets no
\* request_timeout, and the sweep is over.
C34_TimeoutAnnouncedAfterWrite ==
    [][/\ \A id \in Ids :
            TimeoutsIn(events', id) # TimeoutsIn(events, id) =>
                /\ id \in DOMAIN store'
                /\ store'[id].status = TIMEOUT
                /\ Cardinality(TimeoutsIn(events', id))
                       = Cardinality(TimeoutsIn(events, id)) + 1
       /\ \A order \in Orders(Due(store, clock)), failAt \in 1..MaxIds :
            (/\ sweep.pc = "sleep"
             /\ failAt <= Len(order)
             /\ failAt = 1 \/ active_connections = <<>>
             /\ process_timeouts(order, FALSE, failAt)) =>
                /\ Untouched(order[failAt])
                /\ sweep'.pc = "sleep"
       /\ \A ok \in BOOLEAN, failAt \in 1..MaxIds :
            (/\ sweep.pc = "send"
             /\ ~BroadcastMore(sweep.bc, active_connections)
             /\ failAt <= Len(sweep.rest)
             /\ failAt = 1 \/ active_connections' = <<>>
             /\ sweep_resume(ok, failAt)) =>
                /\ Untouched(sweep.rest[failAt].id)
                /\ sweep'.pc = "sleep"]_vars

\* with no websocket ever registered, a sweep wrote and announced the first
\* of two due records and met a store error at the second
C34_Witness ==
    /\ nextConn = 0
    /\ sweep.pc = "sleep"
    /\ \E id, other \in DOMAIN store :
          /\ store[id].status = TIMEOUT
          /\ Cardinality(TimeoutsIn(events, id)) = 1
          /\ store[other].status = PENDING
          /\ store[other].timeout_at = store[id].timeout_at
          /\ TimeoutsIn(events, other) = {}

\* C35: while the monitor runs and the store is available again and again,
\* every pending escalation whose deadline has passed stops being pending
\* (here, with no Resolve and no Delete: gets status timeout), also when a
\* registered connection's send never completes.
C35_OverdueEventuallyTimedOut ==
    \A id \in Ids : Overdue(id) ~> (StatusOf(id) = TIMEOUT)

\* C36: a start of the service leaves every escalation record and every
\* knowledge entry of the store as it was: the two lists read after the
\* start are the lists read before it.
C36_StartupKeepsRecords ==
    [][\A fail \in {"none", "requests", "kb"} :
          lifespan(fail) =>
              /\ store' = store
              /\ kb' = kb
              /\ get_help_requests(Data(store'), FALSE)
                     = get_help_requests(Data(store), FALSE)
              /\ get_knowledge_base(kb', FALSE) = get_knowledge_base(kb, FALSE)]_vars

\* C37: an escalation that Create stored and Delete removed stays removed:
\* no step puts a record under its id again and no step hands a
\* request_timeout for it to broadcast, whatever sweep was suspended with a
\* copy of it when it was deleted.
C37_DeletedStaysDeleted ==
    [][\A id \in DOMAIN created :
          id \notin DOMAIN store =>
              /\ id \notin DOMAIN store'
              /\ TimeoutsIn(events', id) = TimeoutsIn(events, id)]_vars

\* C38: when the create call of the agent fails (the backend answers 500
\* because the store write raised, or the call times out, or the backend
\* cannot be reached) the customer is not told that the question is being
\* escalated.
C38_EscalationToldOnlyWhenCreated ==
    [][\A q \in Questions, c \in Callers, s \in Sessions :
          create_help_request(q, c, s, TRUE) =>
              /\ create_outcome(TRUE) # "created"
              /\ \A response \in {Response(create_status(create_outcome(TRUE))),
                                  TimeoutException, ConnectError} :
                     request_help(response) # EscalationReply]_vars

\* C39: a loop task that sleeps after a sweep ended by a store error sleeps
\* for the retry wait of 60 s, and one that sleeps after a sweep without
\* error sleeps for the normal 300 s.
C39_BackOffAfterFailedSweep ==
    \A t \in 1..Len(loops) :
        loops[t].pc = "sleep" =>
            loop_sleep(loops[t].failed) = (IF loops[t].failed THEN 60 ELSE 300)

====
